---- MODULE Spec2Model ----
(***************************************************************************)
(* ExpenseTracker (src/unnamed/part_000, the component with bulk delete;   *)
(* src/app/page.tsx is the same component without handleDeleteAll and      *)
(* handleDeleteByCategory).                                                *)
(*                                                                         *)
(* State: the React state of the component (expenses, filterCategory,      *)
(* formData), the localStorage entry "expenses", the wall clock read by    *)
(* Date.now(), the alert / console channels, and the position of the       *)
(* mount-time effects.                                                     *)
(*                                                                         *)
(* Amounts are numbers of hundredths (250.50 is 25050).  Texts that are    *)
(* parsed or produced by the code (the amount field, the id, the numbers   *)
(* of the stored JSON) are sequences of one-character strings.             *)
(*                                                                         *)
(* An event handler is one step: the component is a "use client" React     *)
(* component, every mutation is raised by a click, and React renders and   *)
(* runs the effects of a click's update before the click's task ends.      *)
(* The effects of the mount are steps of their own.                        *)
(***************************************************************************)
EXTENDS Integers, Sequences, FiniteSets, TLC

VARIABLES expenses, filterCategory, formData, storage, now, pc, pending,
          notice, log, op, answer, lastId, prevExpenses, bootBlob, delivered

vars == <<expenses, filterCategory, formData, storage, now, pc, pending,
          notice, log, op, answer, lastId, prevExpenses, bootBlob, delivered>>

(* ---------------------------- bounds ----------------------------------- *)

\* longest collection the model builds
MaxLen == 2

\* last millisecond the clock reaches
MaxClock == 2

(* ---------------------------- constants -------------------------------- *)

categories == {"Food", "Transport", "Entertainment", "Utilities", "Health", "Shopping", "Other"}

uniqueCategories == {"All"} \cup categories

\* new Date().toISOString().split("T")[0]
Today == "2024-01-05"

\* the options the user picks in the two selects
PickedCategories == {"Food", "Transport"}

PickedFilters == {"All", "Food"}

\* what the date input can hold: cleared, or a date
DateInputs == {"", Today}

\* what the description input can hold
DescriptionInputs == {"lunch"}

\* what the number input can hold: cleared, or a valid floating-point text
\* (min="0" marks a negative text invalid for form submission, it does not
\* keep it out of the value)
AmountInputs == { <<>>, <<"0", "2", ".", "5", "0">>, <<"-", "5">> }

MsgRequired == "Please fill in all required fields"

MsgSelectCategory == "Please select a specific category to delete"

MsgNoneInCategory == "No expenses found in category"

MsgParseFailed == "Failed to parse expenses:"

MsgNoExpenses == "No expenses to download"

MsgPdfError == "Error generating PDF:"

MsgPdfFailed == "Failed to generate PDF"

(* ---------------------------- number texts ----------------------------- *)

DigitChars == <<"0", "1", "2", "3", "4", "5", "6", "7", "8", "9">>

DigitVal(c) == (CHOOSE i \in 1..10 : DigitChars[i] = c) - 1

RECURSIVE ParseDigits(_)
ParseDigits(s) ==
    IF s = <<>> THEN 0
    ELSE ParseDigits(SubSeq(s, 1, Len(s) - 1)) * 10 + DigitVal(s[Len(s)])

RECURSIVE DigitsOf(_)
DigitsOf(n) ==
    IF n < 10 THEN <<DigitChars[n + 1]>>
    ELSE DigitsOf(n \div 10) \o <<DigitChars[(n % 10) + 1]>>

\* Number.parseFloat on a valid floating-point text with at most two
\* fraction digits; the result is in hundredths
ParseFloat(text) ==
    LET neg  == text # <<>> /\ text[1] = "-"
        body == IF neg THEN Tail(text) ELSE text
        dots == {i \in 1..Len(body) : body[i] = "."}
        dot  == IF dots = {} THEN Len(body) + 1 ELSE CHOOSE i \in dots : TRUE
        ip   == SubSeq(body, 1, dot - 1)
        fp   == SubSeq(body, dot + 1, Len(body))
        frac == IF Len(fp) = 0 THEN 0
                ELSE IF Len(fp) = 1 THEN DigitVal(fp[1]) * 10
                ELSE DigitVal(fp[1]) * 10 + DigitVal(fp[2])
        mag  == ParseDigits(ip) * 100 + frac
    IN  IF neg THEN 0 - mag ELSE mag

\* a number text that drops the fraction
NumberToStringWhole(n) ==
    (IF n < 0 THEN <<"-">> ELSE <<>>) \o DigitsOf((IF n < 0 THEN 0 - n ELSE n) \div 100)

\* Number::toString, which JSON.stringify applies to a number
NumberToString(n) ==
    LET mag  == IF n < 0 THEN 0 - n ELSE n
        ip   == mag \div 100
        fp   == mag % 100
        frac == IF fp = 0 THEN <<>>
                ELSE IF fp % 10 = 0 THEN <<".", DigitChars[(fp \div 10) + 1]>>
                ELSE <<".", DigitChars[(fp \div 10) + 1], DigitChars[(fp % 10) + 1]>>
    IN  (IF n < 0 THEN <<"-">> ELSE <<>>) \o DigitsOf(ip) \o frac

\* Number.prototype.toFixed(2): always two fraction digits
ToFixed2(n) ==
    LET mag == IF n < 0 THEN 0 - n ELSE n
    IN  (IF n < 0 THEN <<"-">> ELSE <<>>) \o DigitsOf(mag \div 100)
          \o <<".", DigitChars[((mag % 100) \div 10) + 1], DigitChars[(mag % 10) + 1]>>

(* ---------------------------- localStorage ----------------------------- *)

\* getItem returns null: no entry under "expenses"
MissingBlob == [kind |-> "missing", items |-> <<>>]

\* the entry is the empty string
EmptyBlob == [kind |-> "empty", items |-> <<>>]

\* the entry is a text JSON.parse throws on
MalformedBlob == [kind |-> "malformed", items |-> <<>>]

\* JSON.stringify(expenses): an array text; every number is written as text
JSONstringify(exps) ==
    [kind  |-> "array",
     items |-> [i \in 1..Len(exps) |->
                  [id          |-> exps[i].id,
                   date        |-> exps[i].date,
                   category    |-> exps[i].category,
                   amount      |-> NumberToString(exps[i].amount),
                   description |-> exps[i].description]]]

\* JSON.parse(savedExpenses) of an array text
JSONparse(blob) ==
    [i \in 1..Len(blob.items) |->
        [id          |-> blob.items[i].id,
         date        |-> blob.items[i].date,
         category    |-> blob.items[i].category,
         amount      |-> ParseFloat(blob.items[i].amount),
         description |-> blob.items[i].description]]

\* if (savedExpenses): null and "" are falsy
Truthy(blob) == blob.kind \in {"malformed", "array"}

\* JSON.parse throws
ParseThrows(blob) == blob.kind = "malformed"

\* a save effect that leaves an empty collection unwritten
SaveEffectNonEmptyOnly(exps, stored) ==
    IF Len(exps) = 0 THEN stored ELSE JSONstringify(exps)

\* the save effect: localStorage.setItem("expenses", JSON.stringify(expenses))
\* overwrites what is stored
SaveEffect(exps, stored) == JSONstringify(exps)

(* ---------------------------- component -------------------------------- *)

DefaultForm == [date |-> Today, category |-> "Food", amount |-> <<>>, description |-> ""]

\* a check that forgets the date
FormInvalidNoDate(form) == form.category = "" \/ form.amount = <<>>

\* !formData.date || !formData.category || !formData.amount
FormInvalid(form) == form.date = "" \/ form.category = "" \/ form.amount = <<>>

\* the object literal newExpense
NewExpense(form, clock) ==
    [id          |-> DigitsOf(clock),
     date        |-> form.date,
     category    |-> form.category,
     amount      |-> ParseFloat(form.amount),
     description |-> form.description]

\* the new entry put last
Appended(e, exps) == exps \o <<e>>

\* [newExpense, ...expenses]
Prepended(e, exps) == <<e>> \o exps

\* a filter that keeps the entry it should drop
WithId(exps, id) == SelectSeq(exps, LAMBDA e : e.id = id)

\* expenses.filter((expense) => expense.id !== id)
WithoutId(exps, id) == SelectSeq(exps, LAMBDA e : e.id # id)

\* a filter that hands the matching entries back oldest first
InCategoryReversed(exps, cat) ==
    LET hits == SelectSeq(exps, LAMBDA e : e.category = cat)
    IN  [i \in 1..Len(hits) |-> hits[Len(hits) + 1 - i]]

\* expenses.filter((expense) => expense.category === filterCategory)
InCategory(exps, cat) == SelectSeq(exps, LAMBDA e : e.category = cat)

\* a bulk delete that drops the first matching entry only
WithoutFirstInCategory(exps, cat) ==
    LET hits == {i \in 1..Len(exps) : exps[i].category = cat}
        first == IF hits = {} THEN 0 ELSE CHOOSE i \in hits : \A j \in hits : i <= j
    IN  [k \in 1..(Len(exps) - (IF first = 0 THEN 0 ELSE 1)) |->
            IF first = 0 \/ k < first THEN exps[k] ELSE exps[k + 1]]

\* expenses.filter((expense) => expense.category !== filterCategory)
WithoutCategory(exps, cat) == SelectSeq(exps, LAMBDA e : e.category # cat)

filteredExpenses == IF filterCategory = "All" THEN expenses ELSE InCategory(expenses, filterCategory)

\* reduce((sum, expense) => sum + expense.amount, 0)
RECURSIVE Reduce(_, _)
Reduce(exps, sum) ==
    IF exps = <<>> THEN sum ELSE Reduce(Tail(exps), sum + Head(exps).amount)

\* a total taken over the whole collection, whatever the filter
totalOfCollection == Reduce(expenses, 0)

totalAmount == Reduce(filteredExpenses, 0)

\* the total line under the table: Total: INR {totalAmount.toFixed(2)}
displayedTotal == ToFixed2(totalAmount)

\* tableData: one row per expense of the view
TableData(view) ==
    [i \in 1..Len(view) |->
        [date        |-> view[i].date,
         category    |-> view[i].category,
         amount      |-> ToFixed2(view[i].amount),
         description |-> IF view[i].description = "" THEN "-" ELSE view[i].description]]

\* the document doc.save hands over
Report(view, selection, total) ==
    [name         |-> Today,
     categoryLine |-> IF selection # "All" THEN selection ELSE "none",
     startY       |-> IF selection # "All" THEN 42 ELSE 36,
     body         |-> TableData(view),
     total        |-> ToFixed2(total)]

\* the calls of the try block before doc.save, any of which may throw
ConstructionSteps == {"jsPDF", "title", "reportDate", "categoryLine", "autoTable", "totalLine", "footer"}

\* no update queued by the load effect
NoPending == [set |-> FALSE, value |-> <<>>]

\* outside a startup nothing is remembered of the previous session
NoBoot == [kind |-> "none", items |-> <<>>]

\* nothing handed to the browser as a download
NoFile == [name |-> "none", categoryLine |-> "none", startY |-> 0, body |-> <<>>, total |-> <<>>]

Init ==
    /\ expenses = <<>>
    /\ filterCategory = "All"
    /\ formData = DefaultForm
    /\ storage \in {MissingBlob, EmptyBlob, MalformedBlob}
    /\ now = 1
    /\ pc = "mounted"
    /\ pending = NoPending
    /\ notice = "none"
    /\ log = "none"
    /\ op = "mount"
    /\ answer = "none"
    /\ lastId = <<>>
    /\ prevExpenses = <<>>
    /\ bootBlob = storage
    /\ delivered = NoFile

\* a load effect whose catch also alerts the user
LoadEffectAlerting ==
    /\ pc = "mounted"
    /\ pc' = "loadRun"
    /\ op' = "loadEffect"
    /\ IF Truthy(storage)
       THEN IF ParseThrows(storage)
            THEN /\ log' = MsgParseFailed
                 /\ notice' = MsgParseFailed
                 /\ UNCHANGED pending
            ELSE /\ pending' = [set |-> TRUE, value |-> JSONparse(storage)]
                 /\ UNCHANGED <<log, notice>>
       ELSE UNCHANGED <<pending, log, notice>>
    /\ UNCHANGED <<expenses, filterCategory, formData, storage, now,
                   answer, lastId, prevExpenses, bootBlob, delivered>>

\* the load effect, run once after the first render
LoadEffect ==
    /\ pc = "mounted"
    /\ pc' = "loadRun"
    /\ op' = "loadEffect"
    /\ IF Truthy(storage)
       THEN IF ParseThrows(storage)
            THEN /\ log' = MsgParseFailed
                 /\ UNCHANGED pending
            ELSE /\ pending' = [set |-> TRUE, value |-> JSONparse(storage)]
                 /\ UNCHANGED log
       ELSE UNCHANGED <<pending, log>>
    /\ UNCHANGED <<expenses, filterCategory, formData, storage, now, notice,
                   answer, lastId, prevExpenses, bootBlob, delivered>>

\* the save effect of the first render, run right after the load effect;
\* with no update queued the startup is over
InitialSaveEffect ==
    /\ pc = "loadRun"
    /\ storage' = SaveEffect(expenses, storage)
    /\ IF pending.set
       THEN /\ pc' = "saved"
            /\ op' = "saveEffect"
            /\ UNCHANGED <<prevExpenses, bootBlob>>
       ELSE /\ pc' = "idle"
            /\ op' = "load"
            /\ prevExpenses' = <<>>
            /\ bootBlob' = NoBoot
    /\ UNCHANGED <<expenses, filterCategory, formData, now, pending, notice,
                   log, answer, lastId, delivered>>

\* the render that applies the setExpenses of the load effect
Rerender ==
    /\ pc = "saved"
    /\ expenses' = pending.value
    /\ pending' = NoPending
    /\ pc' = "rendered"
    /\ op' = "render"
    /\ UNCHANGED <<filterCategory, formData, storage, now, notice, log,
                   answer, lastId, prevExpenses, bootBlob, delivered>>

\* the save effect of that render; the startup is over
LoadedSaveEffect ==
    /\ pc = "rendered"
    /\ storage' = SaveEffect(expenses, storage)
    /\ pc' = "idle"
    /\ op' = "load"
    /\ prevExpenses' = <<>>
    /\ bootBlob' = NoBoot
    /\ UNCHANGED <<expenses, filterCategory, formData, now, pending, notice,
                   log, answer, lastId, delivered>>

\* the value an input element hands to handleInputChange
InputValues(name) ==
    CASE name = "date" -> DateInputs
      [] name = "category" -> PickedCategories
      [] name = "amount" -> AmountInputs
      [] name = "description" -> DescriptionInputs

handleInputChange(name, value) ==
    /\ pc = "idle"
    /\ formData' = [formData EXCEPT ![name] = value]
    /\ op' = "inputChange"
    /\ delivered' = NoFile
    /\ notice' = "none"
    /\ answer' = "none"
    /\ lastId' = <<>>
    /\ UNCHANGED <<expenses, filterCategory, storage, now, pc, pending,
                   log, prevExpenses, bootBlob>>

setFilterCategory(value) ==
    /\ pc = "idle"
    /\ filterCategory' = value
    /\ op' = "filter"
    /\ delivered' = NoFile
    /\ notice' = "none"
    /\ answer' = "none"
    /\ lastId' = <<>>
    /\ UNCHANGED <<expenses, formData, storage, now, pc, pending,
                   log, prevExpenses, bootBlob>>

handleAddExpense ==
    /\ pc = "idle"
    /\ Len(expenses) < MaxLen
    /\ op' = "add"
    /\ delivered' = NoFile
    /\ answer' = "none"
    /\ lastId' = <<>>
    /\ IF FormInvalid(formData)
       THEN /\ notice' = MsgRequired
            /\ UNCHANGED <<expenses, formData, storage>>
       ELSE /\ expenses' = Prepended(NewExpense(formData, now), expenses)
            /\ formData' = DefaultForm
            /\ storage' = SaveEffect(expenses', storage)
            /\ notice' = "none"
    /\ UNCHANGED <<filterCategory, now, pc, pending, log, prevExpenses, bootBlob>>

handleDeleteExpense(id) ==
    /\ pc = "idle"
    /\ op' = "delete"
    /\ delivered' = NoFile
    /\ answer' = "none"
    /\ lastId' = id
    /\ notice' = "none"
    /\ expenses' = WithoutId(expenses, id)
    /\ storage' = SaveEffect(expenses', storage)
    /\ UNCHANGED <<filterCategory, formData, now, pc, pending, log,
                   prevExpenses, bootBlob>>

\* a delete-all that clears whatever the user answers
handleDeleteAllUnconfirmed(confirm) ==
    /\ pc = "idle"
    /\ op' = "deleteAll"
    /\ delivered' = NoFile
    /\ lastId' = <<>>
    /\ answer' = IF confirm THEN "yes" ELSE "no"
    /\ notice' = "none"
    /\ expenses' = <<>>
    /\ storage' = SaveEffect(expenses', storage)
    /\ UNCHANGED <<filterCategory, formData, now, pc, pending, log,
                   prevExpenses, bootBlob>>

handleDeleteAll(confirm) ==
    /\ pc = "idle"
    /\ op' = "deleteAll"
    /\ delivered' = NoFile
    /\ lastId' = <<>>
    /\ answer' = IF confirm THEN "yes" ELSE "no"
    /\ notice' = "none"
    /\ IF confirm
       THEN /\ expenses' = <<>>
            /\ storage' = SaveEffect(expenses', storage)
       ELSE UNCHANGED <<expenses, storage>>
    /\ UNCHANGED <<filterCategory, formData, now, pc, pending, log,
                   prevExpenses, bootBlob>>

handleDeleteByCategory(confirm) ==
    /\ pc = "idle"
    /\ op' = "deleteByCategory"
    /\ delivered' = NoFile
    /\ lastId' = <<>>
    /\ IF filterCategory = "All"
       THEN /\ notice' = MsgSelectCategory
            /\ answer' = "none"
            /\ UNCHANGED <<expenses, storage>>
       ELSE IF Len(InCategory(expenses, filterCategory)) = 0
       THEN /\ notice' = MsgNoneInCategory
            /\ answer' = "none"
            /\ UNCHANGED <<expenses, storage>>
       ELSE /\ notice' = "none"
            /\ answer' = IF confirm THEN "yes" ELSE "no"
            /\ IF confirm
               THEN /\ expenses' = WithoutCategory(expenses, filterCategory)
                    /\ storage' = SaveEffect(expenses', storage)
               ELSE UNCHANGED <<expenses, storage>>
    /\ UNCHANGED <<filterCategory, formData, now, pc, pending, log,
                   prevExpenses, bootBlob>>

\* a download that saves what it has when a step throws
downloadPDFPartial(failAt) ==
    /\ pc = "idle"
    /\ op' = "download"
    /\ lastId' = <<>>
    /\ IF Len(filteredExpenses) = 0
       THEN /\ notice' = MsgNoExpenses
            /\ answer' = "none"
            /\ delivered' = NoFile
            /\ UNCHANGED log
       ELSE IF failAt \in ConstructionSteps
       THEN /\ log' = MsgPdfError
            /\ notice' = MsgPdfFailed
            /\ answer' = "threw"
            /\ delivered' = Report(<<>>, filterCategory, 0)
       ELSE /\ notice' = "none"
            /\ answer' = "ok"
            /\ delivered' = Report(filteredExpenses, filterCategory, totalAmount)
            /\ UNCHANGED log
    /\ UNCHANGED <<expenses, filterCategory, formData, storage, now, pc,
                   pending, prevExpenses, bootBlob>>

\* downloadPDF; failAt is the step of the try block that throws, or "none"
downloadPDF(failAt) ==
    /\ pc = "idle"
    /\ op' = "download"
    /\ lastId' = <<>>
    /\ IF Len(filteredExpenses) = 0
       THEN /\ notice' = MsgNoExpenses
            /\ answer' = "none"
            /\ delivered' = NoFile
            /\ UNCHANGED log
       ELSE IF failAt \in ConstructionSteps
       THEN /\ log' = MsgPdfError
            /\ notice' = MsgPdfFailed
            /\ answer' = "threw"
            /\ delivered' = NoFile
       ELSE /\ notice' = "none"
            /\ answer' = "ok"
            /\ delivered' = Report(filteredExpenses, filterCategory, totalAmount)
            /\ UNCHANGED log
    /\ UNCHANGED <<expenses, filterCategory, formData, storage, now, pc,
                   pending, prevExpenses, bootBlob>>

\* a millisecond passes
Tick ==
    /\ now < MaxClock
    /\ now' = now + 1
    /\ op' = "tick"
    /\ delivered' = NoFile
    /\ notice' = "none"
    /\ answer' = "none"
    /\ lastId' = <<>>
    /\ UNCHANGED <<expenses, filterCategory, formData, storage, pc, pending,
                   log, prevExpenses, bootBlob>>

\* the session ends and the page is opened again: the first render of a new
\* session, with the storage the last one left
Reload ==
    /\ pc = "idle"
    /\ expenses' = <<>>
    /\ filterCategory' = "All"
    /\ formData' = DefaultForm
    /\ pc' = "mounted"
    /\ pending' = NoPending
    /\ notice' = "none"
    /\ log' = "none"
    /\ op' = "mount"
    /\ delivered' = NoFile
    /\ answer' = "none"
    /\ lastId' = <<>>
    /\ prevExpenses' = expenses
    /\ bootBlob' = storage
    /\ UNCHANGED <<storage, now>>

\* the ids a delete can be asked for
IdInputs == {DigitsOf(t) : t \in 1..MaxClock}

Next ==
    \/ LoadEffect
    \/ InitialSaveEffect
    \/ Rerender
    \/ LoadedSaveEffect
    \/ \E name \in {"date", "category", "amount", "description"} :
          \E value \in InputValues(name) : handleInputChange(name, value)
    \/ \E value \in PickedFilters : setFilterCategory(value)
    \/ handleAddExpense
    \/ \E id \in IdInputs : handleDeleteExpense(id)
    \/ \E confirm \in BOOLEAN : handleDeleteAll(confirm)
    \/ \E confirm \in BOOLEAN : handleDeleteByCategory(confirm)
    \/ Tick
    \/ Reload

Spec == Init /\ [][Next]_vars

(* ---------------------------- stored sessions ------------------------- *)

\* longest collection a previous session left in the storage
MaxStored == 3

\* entries a previous session added: Food 100, Transport 50, Food 75
SampleEntries ==
    { [id |-> <<"1">>, date |-> Today, category |-> "Food", amount |-> 10000, description |-> ""],
      [id |-> <<"2">>, date |-> Today, category |-> "Transport", amount |-> 5000, description |-> "lunch"],
      [id |-> <<"3">>, date |-> Today, category |-> "Food", amount |-> 7500, description |-> ""] }

StoredCollections == UNION { [1..n -> SampleEntries] : n \in 0..MaxStored }

\* the selections tried on a loaded collection
ViewFilters == {"All", "Food", "Transport", "Other"}

\* a session opened on the storage a previous session wrote
InitView ==
    \E c \in StoredCollections :
        /\ expenses = <<>>
        /\ filterCategory = "All"
        /\ formData = DefaultForm
        /\ storage = JSONstringify(c)
        /\ now = 1
        /\ pc = "mounted"
        /\ pending = NoPending
        /\ notice = "none"
        /\ log = "none"
        /\ op = "mount"
        /\ answer = "none"
        /\ lastId = <<>>
        /\ prevExpenses = c
        /\ bootBlob = storage
        /\ delivered = NoFile

NextView ==
    \/ LoadEffect
    \/ InitialSaveEffect
    \/ Rerender
    \/ LoadedSaveEffect
    \/ \E value \in ViewFilters : setFilterCategory(value)
    \/ \E failAt \in ConstructionSteps \cup {"none"} : downloadPDF(failAt)

SpecView == InitView /\ [][NextView]_vars

(* ---------------------------- rendered controls ----------------------- *)

\* {filteredExpenses.length > 0 && <div className="button-group">}
ButtonGroupShown == Len(filteredExpenses) > 0

\* a Delete Category button shown with the button group, whatever the filter
DeleteCategoryShownUnfiltered == ButtonGroupShown

\* {filterCategory !== "All" && <button onClick={handleDeleteByCategory}>}
DeleteCategoryShown == ButtonGroupShown /\ filterCategory # "All"

\* the rows of the table, each with its Delete button
RowIds == {filteredExpenses[i].id : i \in 1..Len(filteredExpenses)}

clickDownload == ButtonGroupShown /\ downloadPDF("none")

clickDeleteAll(confirm) == ButtonGroupShown /\ handleDeleteAll(confirm)

clickDeleteCategory(confirm) == DeleteCategoryShown /\ handleDeleteByCategory(confirm)

clickRowDelete(id) == id \in RowIds /\ handleDeleteExpense(id)

NextUI ==
    \/ LoadEffect
    \/ InitialSaveEffect
    \/ Rerender
    \/ LoadedSaveEffect
    \/ \E name \in {"date", "category", "amount", "description"} :
          \E value \in InputValues(name) : handleInputChange(name, value)
    \/ \E value \in PickedFilters : setFilterCategory(value)
    \/ handleAddExpense
    \/ \E id \in IdInputs : clickRowDelete(id)
    \/ \E confirm \in BOOLEAN : clickDeleteAll(confirm)
    \/ \E confirm \in BOOLEAN : clickDeleteCategory(confirm)
    \/ clickDownload
    \/ Tick
    \/ Reload

SpecUI == Init /\ [][NextUI]_vars

(* ---------------------------- properties ------------------------------- *)

\* the ids of a collection, by position
IdsOf(exps) == {exps[i].id : i \in 1..Len(exps)}

\* the steps that call setExpenses
MutatingOps == {"add", "delete", "deleteAll", "deleteByCategory"}

\* C1: an add with non-empty date, category and amount text makes the
\* collection one entry longer, puts the entry built from the form first and
\* keeps the previous entries after it, unchanged and in order.
AddPrepends ==
    [][(op' = "add" /\ formData.date # "" /\ formData.category # ""
                    /\ formData.amount # <<>>)
        => /\ Len(expenses') = Len(expenses) + 1
           /\ expenses'[1].date = formData.date
           /\ expenses'[1].category = formData.category
           /\ expenses'[1].amount = ParseFloat(formData.amount)
           /\ expenses'[1].description = formData.description
           /\ \A i \in 1..Len(expenses) : expenses'[i + 1] = expenses[i]]_vars

\* an add went through on a collection that already had an entry
AddPrependsWitness ==
    /\ op = "add"
    /\ notice = "none"
    /\ Len(expenses) = 2
    /\ expenses[1].description = "lunch"
    /\ expenses[1].amount = 250

\* C2: an add with an empty date, category or amount text is rejected with
\* the alert and leaves the collection and the stored blob as they were.
AddRejectedUnchanged ==
    [][(op' = "add" /\ (formData.date = "" \/ formData.category = ""
                        \/ formData.amount = <<>>))
        => /\ expenses' = expenses
           /\ storage' = storage
           /\ notice' = MsgRequired]_vars

\* an add with the date cleared and an amount typed was rejected
AddRejectedWitness ==
    /\ op = "add"
    /\ notice = MsgRequired
    /\ formData.date = ""
    /\ formData.amount # <<>>
    /\ Len(expenses) = 1

\* C3: every expense of the collection and of the stored copy has a
\* non-empty date, a category of the fixed set and an amount >= 0.
EveryExpenseWellFormed ==
    /\ \A i \in 1..Len(expenses) :
          /\ expenses[i].date # ""
          /\ expenses[i].category \in categories
          /\ expenses[i].amount >= 0
    /\ storage.kind = "array" =>
          \A i \in 1..Len(storage.items) :
             /\ storage.items[i].date # ""
             /\ storage.items[i].category \in categories
             /\ storage.items[i].amount[1] # "-"

\* C4: no two expenses of the collection share an id.
IdsUnique ==
    \A i, j \in 1..Len(expenses) : i # j => expenses[i].id # expenses[j].id

\* C5: after a mutating handler the stored blob is the serialization of the
\* collection.
StoredAfterMutation ==
    (pc = "idle" /\ op \in MutatingOps) =>
        /\ storage.kind = "array"
        /\ Len(storage.items) = Len(expenses)
        /\ \A i \in 1..Len(expenses) :
              /\ storage.items[i].id = expenses[i].id
              /\ storage.items[i].date = expenses[i].date
              /\ storage.items[i].category = expenses[i].category
              /\ ParseFloat(storage.items[i].amount) = expenses[i].amount
              /\ storage.items[i].description = expenses[i].description

\* a remove took one of two entries and the stored array holds the other
StoredAfterMutationWitness ==
    /\ pc = "idle"
    /\ op = "delete"
    /\ lastId = <<"1">>
    /\ Len(expenses) = 1
    /\ expenses[1].id = <<"2">>
    /\ storage.kind = "array"
    /\ Len(storage.items) = 1
    /\ storage.items[1].id = <<"2">>

\* C6: the collection a new session loads is the collection the previous
\* session ended with: same entries, same order, every field equal.
RoundTrip ==
    pc = "rendered" => expenses = prevExpenses

\* a session loaded two entries, one with a fraction and one negative
RoundTripWitness ==
    /\ pc = "rendered"
    /\ Len(expenses) = 2
    /\ expenses[1].amount = 250
    /\ expenses[2].amount = 0 - 500
    /\ expenses[1].category # expenses[2].category

\* C7: with nothing stored, an empty text or a text that does not parse, the
\* load effect queues nothing and alerts nothing, a parse failure is logged,
\* and the startup ends with the empty collection.
LoadFallsBackToEmpty ==
    [][(bootBlob.kind \in {"missing", "empty", "malformed"})
        => /\ op' = "loadEffect" =>
                /\ ~pending'.set
                /\ notice' = "none"
                /\ log' = (IF bootBlob.kind = "malformed" THEN MsgParseFailed ELSE "none")
           /\ (pc = "loadRun" /\ pc' # pc) =>
                /\ pc' = "idle"
                /\ op' = "load"
                /\ expenses' = <<>>
                /\ notice' = "none"]_vars

\* after a failed parse the session took an add
LoadFallsBackWitness ==
    /\ log = MsgParseFailed
    /\ pc = "idle"
    /\ op = "add"
    /\ notice = "none"
    /\ Len(expenses) = 1

\* C8: delete-by-category changes nothing under "All" (and prompts), nothing
\* with no matching entry or a declined confirmation, and otherwise leaves
\* exactly the entries of the other categories, in their order.
DeleteByCategoryExact ==
    [][(op' = "deleteByCategory")
        => IF filterCategory = "All"
           THEN expenses' = expenses /\ notice' = MsgSelectCategory
           ELSE IF (\A i \in 1..Len(expenses) : expenses[i].category # filterCategory)
                   \/ answer' # "yes"
           THEN expenses' = expenses
           ELSE expenses' = SelectSeq(expenses, LAMBDA e : e.category # filterCategory)]_vars

\* a confirmed delete of "Food" left the one entry of another category
DeleteByCategoryWitness ==
    /\ op = "deleteByCategory"
    /\ answer = "yes"
    /\ filterCategory = "Food"
    /\ Len(expenses) = 1
    /\ expenses[1].category = "Transport"

\* C9: after remove(id) no entry has that id, and when none had it before
\* the collection is what it was.
DeleteById ==
    [][(op' = "delete")
        => /\ lastId' \notin IdsOf(expenses')
           /\ lastId' \notin IdsOf(expenses) => expenses' = expenses]_vars

\* a remove of an id no entry has, on a collection of two
DeleteByIdWitness ==
    /\ op = "delete"
    /\ Len(expenses) = MaxLen
    /\ lastId = <<"2">>
    /\ IdsOf(expenses) = {<<"1">>}

\* C10: delete-all empties the collection when the user confirms and leaves
\* collection and blob alone when the user declines; no bulk deletion
\* changes the collection without a "yes" in the same step.
BulkDeleteNeedsConfirmation ==
    [][/\ op' = "deleteAll" =>
            IF answer' = "yes" THEN expenses' = <<>>
            ELSE expenses' = expenses /\ storage' = storage
       /\ (op' \in {"deleteAll", "deleteByCategory"} /\ expenses' # expenses)
            => answer' = "yes"]_vars

\* a declined delete-all on a collection of two
BulkDeleteWitness ==
    /\ op = "deleteAll"
    /\ answer = "no"
    /\ Len(expenses) = 2
    /\ storage.kind = "array"
    /\ Len(storage.items) = 2

\* the positions of the collection the selection keeps
ViewIndices ==
    {i \in 1..Len(expenses) : filterCategory = "All" \/ expenses[i].category = filterCategory}

\* the sum of the amounts at a set of positions of the collection
RECURSIVE SumAt(_)
SumAt(S) ==
    IF S = {} THEN 0
    ELSE LET i == CHOOSE x \in S : TRUE IN expenses[i].amount + SumAt(S \ {i})

\* C11: the filtered view is the whole collection under "All" and otherwise
\* the entries of the selected category, each at the rank it has among them
\* in the collection; choosing a selection changes neither the collection
\* nor the stored blob.
FilteredIsSubsequence ==
    /\ [](/\ filterCategory = "All" => filteredExpenses = expenses
          /\ Len(filteredExpenses) = Cardinality(ViewIndices)
          /\ \A i \in ViewIndices :
                filteredExpenses[Cardinality({j \in ViewIndices : j <= i})] = expenses[i])
    /\ [][op' = "filter" => (expenses' = expenses /\ storage' = storage)]_vars

\* Food 75, Transport 50, Food 100 loaded and "Food" selected: the view is
\* the two Food entries, newest first
FilteredWitness ==
    /\ pc = "idle"
    /\ op = "filter"
    /\ filterCategory = "Food"
    /\ Len(expenses) = 3
    /\ expenses[1].amount = 7500
    /\ expenses[2].category = "Transport"
    /\ expenses[3].amount = 10000
    /\ Len(filteredExpenses) = 2
    /\ filteredExpenses[1] = expenses[1]
    /\ filteredExpenses[2] = expenses[3]

\* C12: the displayed total, and the total of a delivered report, is the sum
\* of the amounts of the entries the selection keeps; under "All" the sum of
\* every amount, and zero for an empty view.
TotalIsSumOfView ==
    /\ totalAmount = SumAt(ViewIndices)
    /\ ParseFloat(displayedTotal) = SumAt(ViewIndices)
    /\ filterCategory = "All" => totalAmount = SumAt(1..Len(expenses))
    /\ ViewIndices = {} => totalAmount = 0
    /\ (op = "download" /\ answer = "ok") => ParseFloat(delivered.total) = SumAt(ViewIndices)

\* the report of the "Food" view of Food 75, Transport 50, Food 100 carries
\* the total 175.00
TotalWitness ==
    /\ op = "download"
    /\ answer = "ok"
    /\ filterCategory = "Food"
    /\ Len(expenses) = 3
    /\ expenses[2].category = "Transport"
    /\ Len(delivered.body) = 2
    /\ delivered.total = <<"1", "7", "5", ".", "0", "0">>

\* C13: a file is delivered only from a non-empty view with no step
\* throwing; an empty view is rejected with its alert, a throwing step is
\* logged and alerted as a generic failure, and neither delivers a file nor
\* changes the collection.
ReportOnlyWhenBuilt ==
    [][op' = "download"
        => /\ expenses' = expenses
           /\ storage' = storage
           /\ delivered' # NoFile => (ViewIndices # {} /\ answer' = "ok")
           /\ ViewIndices = {} => (notice' = MsgNoExpenses /\ delivered' = NoFile)
           /\ answer' = "threw" =>
                (notice' = MsgPdfFailed /\ log' = MsgPdfError /\ delivered' = NoFile)
           /\ (ViewIndices # {} /\ answer' = "ok") =>
                (notice' = "none" /\ Len(delivered'.body) = Cardinality(ViewIndices))]_vars

\* a step threw while the report of a view of two was built
ReportFailedWitness ==
    /\ op = "download"
    /\ answer = "threw"
    /\ notice = MsgPdfFailed
    /\ delivered = NoFile
    /\ Len(filteredExpenses) = 2
    /\ Len(expenses) = 3

\* C14: during a startup on a stored array, the stored blob still parses to
\* the collection the previous session ended with.
StartupKeepsStored ==
    (pc \in {"mounted", "loadRun", "saved", "rendered"} /\ bootBlob.kind = "array")
        => (storage.kind = "array" /\ JSONparse(storage) = prevExpenses)

\* C15: driven through the rendered controls, Delete Category is offered only
\* under a specific selection with a matching entry, Download PDF and Delete
\* All only over a non-empty view, and none of the three rejection alerts is
\* ever raised.
ControlsNeverRejected ==
    /\ notice \notin {MsgSelectCategory, MsgNoneInCategory, MsgNoExpenses}
    /\ DeleteCategoryShown =>
          /\ filterCategory \in categories
          /\ \E i \in 1..Len(expenses) : expenses[i].category = filterCategory
    /\ ButtonGroupShown => ViewIndices # {}
    /\ op \in {"deleteAll", "deleteByCategory"} => answer \in {"yes", "no"}

\* Delete Category was clicked under "Food" and confirmed, one entry stays
ControlsWitness ==
    /\ op = "deleteByCategory"
    /\ answer = "yes"
    /\ notice = "none"
    /\ filterCategory = "Food"
    /\ Len(expenses) = 1
    /\ ~ButtonGroupShown

====
